---- MODULE Spec2Model ----
(***************************************************************************)
(* UnifiedFaceDetector (exam-cheating-detection/src/detection/             *)
(* unified_detector.py): the per-frame facial-signal state machine.        *)
(*                                                                         *)
(* Time is counted in ticks, TicksPerSec ticks to the second; datetime.now *)
(* is the variable clock, which a frame advances by a step chosen by the   *)
(* environment.  Landmark coordinates are integers: normalised coordinates *)
(* in hundredths (x = 46 stands for 0.46), mouth points in pixels.  A      *)
(* quotient of two such numbers is kept as a fraction <<num, den>> with    *)
(* den > 0 and compared by cross multiplication; a Euclidean norm is kept  *)
(* as its square.                                                          *)
(***************************************************************************)
EXTENDS Integers, Sequences, FiniteSets, TLC

VARIABLES
    \* ---- the detector's fields (unified_detector.py:24-40)
    alert_logger,            \* NoLogger or Sink
    face_present,
    face_disappeared_start,  \* None or a time
    gaze_direction,
    last_gaze_change,
    gaze_changes,
    mouth_state_history,
    \* ---- the environment and what a call hands back
    clock,                   \* the value of datetime.now()
    frame,                   \* results.multi_face_landmarks of the latest call
    results_dict,            \* the bundle returned by the latest call
    alerts,                  \* the events log_alert received in the latest call
    \* ---- observers of face absence (history variables)
    unsinked,                \* some frame was processed with no sink attached
    seen_present,            \* some face-present frame has been processed
    run_first,               \* time of the first frame of the current absent run
    run_from_present,        \* the current absent run follows a present frame
    run_alerts,              \* times of the FACE_DISAPPEARED events of the run
    n_face_alerts,           \* FACE_DISAPPEARED events so far
    long_run,                \* some absent run has spanned more than the grace
    near_run,                \* an earlier absent run ended within a tick of the grace
    \* ---- observers of gaze
    last_bucket,             \* bucket of the latest face-present frame
    n_gaze_alerts,           \* GAZE_MOVEMENT events so far
    change_at,               \* time of the latest observed bucket change
    spaced,                  \* all consecutive changes were a window apart
    scenario_pos,            \* frames of Scenario matched so far, or Off
    scenario_t0,             \* time of the scenario's first frame, while it is matched
    n_changes,               \* observed changes of bucket so far
    \* ---- observers of mouth activity
    flags,                   \* open flags of all face-present frames, in order
    episode_alerts,          \* MOUTH_MOVING events of the current episode, up to 2
    neutral_run,             \* frames so far, while all showed the neutral face, or Off
    \* ---- the monitoring loop of main.py
    violation,               \* violation recorded by the latest iteration
    \* ---- a call of a geometry helper on its own
    fn,                      \* the helper called
    args,                    \* its arguments
    ret,                     \* its return value, <<>> until it returns
    \* ---- a second detector, stepped on the same frames with no sink
    twin                     \* its fields, and what its latest call handed back

detector == <<alert_logger, face_present, face_disappeared_start, gaze_direction,
              last_gaze_change, gaze_changes, mouth_state_history>>
call == <<clock, frame, results_dict, alerts>>
faceObs == <<seen_present, run_first, run_from_present, run_alerts,
             n_face_alerts, long_run, near_run>>
gazeObs == <<last_bucket, n_gaze_alerts, change_at, spaced, scenario_pos, scenario_t0,
             n_changes>>
mouthObs == <<flags, episode_alerts, neutral_run>>
helper == <<fn, args, ret>>
vars == <<detector, call, unsinked, faceObs, gazeObs, mouthObs, violation, helper, twin>>

----------------------------------------------------------------------------
\* Bounds of the model.
TicksPerSec == 2
MaxTime == 24
MaxStep == 12
MaxFacePresent == 3
GazeMaxTime == 6
GazeMaxStep == 4
SlowMaxChanges == 6
MaxGazePresent == 8
MouthMaxTime == 1
MaxMouthFrames == 21
MaxOpen == 2
MaxPinchedFrames == 4
MaxTwinPresent == 6
GeoGrid == 1
IrisGrid == 4

\* Constants of the program.
GRACE_SECONDS == 5
GAZE_WINDOW_SECONDS == 2
GAZE_CHANGE_LIMIT == 5
MOUTH_HISTORY_LEN == 20
MOUTH_ACTIVITY == 2

None == -1
NoLogger == "None"
Sink == "Sink"
Off == None

----------------------------------------------------------------------------
\* Arithmetic helpers.
Seconds(n) == n * TicksPerSec

Frac(n, d) == IF d < 0 THEN <<-n, -d>> ELSE <<n, d>>

FracLess(a, b) == a[1] * b[2] < b[1] * a[2]

SqDist(p, q) == (p[1] - q[1]) * (p[1] - q[1]) + (p[2] - q[2]) * (p[2] - q[2])

RECURSIVE Sum(_)
Sum(s) == IF s = <<>> THEN 0 ELSE Head(s) + Sum(Tail(s))

----------------------------------------------------------------------------
\* Geometry (unified_detector.py:55-65, 126-128, 160-173, 195-198).

AspectRatio_unguarded(p1, p2, p3, p4, p5, p6) ==
    <<SqDist(p2, p6), SqDist(p3, p5), SqDist(p1, p4)>>

\* _get_aspect_ratio: (A + B) / (2.0 * C) of the three norms, 0 when C is 0.
\* The value is kept as <<A^2, B^2, C^2>>; 0 is <<0, 0, 1>>.
AspectRatio(p1, p2, p3, p4, p5, p6) ==
    LET A2 == SqDist(p2, p6)
        B2 == SqDist(p3, p5)
        C2 == SqDist(p1, p4)
    IN IF C2 = 0 THEN <<0, 0, 1>> ELSE <<A2, B2, C2>>

IrisPosition_unguarded(iris_center, eye_corners) ==
    Frac(iris_center[1] - eye_corners[1][1], eye_corners[2][1] - eye_corners[1][1])

\* _get_iris_position: (center_x - left_x) / width, 0.5 when width is 0.
IrisPosition(iris_center, eye_corners) ==
    LET center_x == iris_center[1]
        left_x == eye_corners[1][1]
        right_x == eye_corners[2][1]
        width == right_x - left_x
    IN IF width = 0 THEN <<1, 2>> ELSE Frac(center_x - left_x, width)

\* avg_gaze_ratio = (gaze_ratio_l + gaze_ratio_r) / 2.0
AvgGazeRatio(lm) ==
    LET l == IrisPosition(lm.l_iris, <<lm.l_corner_out, lm.l_corner_in>>)
        r == IrisPosition(lm.r_iris, <<lm.r_corner_out, lm.r_corner_in>>)
    IN <<l[1] * r[2] + r[1] * l[2], 2 * l[2] * r[2]>>

GazeBucket_closed(avg) ==
    IF ~FracLess(<<46, 100>>, avg) THEN "Right"
    ELSE IF ~FracLess(avg, <<54, 100>>) THEN "Left"
    ELSE "Center"

\* new_gaze: Right below 0.46, Left above 0.54, Center otherwise.
GazeBucket(avg) ==
    IF FracLess(avg, <<46, 100>>) THEN "Right"
    ELSE IF FracLess(<<54, 100>>, avg) THEN "Left"
    ELSE "Center"

\* mar = mouth_height / mouth_width with a zero width replaced by 1, kept as
\* the fraction <<height^2, width^2>> of the squares.
MouthAspect(lm) ==
    LET height2 == SqDist(lm.mouth_top, lm.mouth_bottom)
        width2 == SqDist(lm.mouth_left, lm.mouth_right)
    IN <<height2, IF width2 = 0 THEN 1 ELSE width2>>

\* is_mouth_open = mar > 0.15, that is 400 * height^2 > 9 * width^2.
IsMouthOpen(mar2) == 400 * mar2[1] > 9 * mar2[2]

\* ear = 10 * |l_top - l_bot| in normalised coordinates, kept as its square.
EyeRatio(lm) == <<SqDist(lm.l_top, lm.l_bot), 100>>

----------------------------------------------------------------------------
\* Face presence (unified_detector.py:86-102).

DisappearedStart_always(was_present, start, now) == now

DisappearedStart_whenUnset(was_present, start, now) ==
    IF start = None THEN now ELSE start

DisappearedStart_inverted(was_present, start, now) ==
    IF ~was_present THEN now ELSE start

\* if self.face_present: self.face_disappeared_start = current_time
DisappearedStart(was_present, start, now) == IF was_present THEN now ELSE start

DisappearedTooLong_atGrace(start, now) ==
    start # None /\ now - start >= Seconds(GRACE_SECONDS)

DisappearedTooLong_wholeSeconds(start, now) ==
    start # None /\ (now - start) \div TicksPerSec > GRACE_SECONDS

\* face_disappeared_start and (current_time - start).total_seconds() > 5
DisappearedTooLong(start, now) ==
    start # None /\ now - start > Seconds(GRACE_SECONDS)

StartAfterAlert_kept(start, now) == start

\* Reset timer to avoid spam: face_disappeared_start = current_time
StartAfterAlert(start, now) == now

\* Face is present: face_disappeared_start = None
StartOnPresence(start) == None

DefaultResults ==
    [face_present |-> FALSE, gaze_direction |-> "Unknown", eye_ratio |-> <<0, 1>>,
     mouth_moving |-> FALSE, mouth_open_score |-> <<0, 1>>]

NoFace_forgets(now) ==
    LET start == DisappearedStart(face_present, face_disappeared_start, now)
        fire == DisappearedTooLong(start, now) /\ alert_logger # NoLogger
    IN /\ face_present' = FALSE
       /\ face_disappeared_start' = IF fire THEN StartAfterAlert(start, now) ELSE start
       /\ alerts' = IF fire THEN <<"FACE_DISAPPEARED">> ELSE <<>>
       /\ results_dict' = DefaultResults
       /\ gaze_changes' = 0
       /\ mouth_state_history' = <<>>
       /\ UNCHANGED <<gaze_direction, last_gaze_change>>

NoFace(now) ==
    LET start == DisappearedStart(face_present, face_disappeared_start, now)
        fire == DisappearedTooLong(start, now) /\ alert_logger # NoLogger
    IN /\ face_present' = FALSE
       /\ face_disappeared_start' = IF fire THEN StartAfterAlert(start, now) ELSE start
       /\ alerts' = IF fire THEN <<"FACE_DISAPPEARED">> ELSE <<>>
       /\ results_dict' = DefaultResults
       /\ UNCHANGED <<gaze_direction, last_gaze_change, gaze_changes,
                      mouth_state_history>>

----------------------------------------------------------------------------
\* Gaze (unified_detector.py:141-150).

GazeChanged(new_gaze, old_gaze) == new_gaze # old_gaze

GazeAlertDue_atLimit(changes, now, last_change) ==
    changes >= GAZE_CHANGE_LIMIT /\ now - last_change < Seconds(GAZE_WINDOW_SECONDS)

\* self.gaze_changes > 5 and (current_time - last_gaze_change).total_seconds() < 2
GazeAlertDue(changes, now, last_change) ==
    changes > GAZE_CHANGE_LIMIT /\ now - last_change < Seconds(GAZE_WINDOW_SECONDS)

NextGazeChanges_kept(changes, due) == changes

\* self.gaze_changes = 0 once the alert is due
NextGazeChanges(changes, due) == IF due THEN 0 ELSE changes

StoredGaze_sticky(new_gaze, old_gaze) ==
    IF new_gaze = "Center" THEN old_gaze ELSE new_gaze

\* if new_gaze != self.gaze_direction: self.gaze_direction = new_gaze
StoredGaze(new_gaze, old_gaze) ==
    IF GazeChanged(new_gaze, old_gaze) THEN new_gaze ELSE old_gaze

----------------------------------------------------------------------------
\* Mouth (unified_detector.py:173-188).

PushHistory_dropNewest(history, sample) ==
    IF Len(history) >= MOUTH_HISTORY_LEN THEN history ELSE Append(history, sample)

\* append, then pop(0) when longer than MOUTH_HISTORY_LEN
PushHistory(history, sample) ==
    LET h == Append(history, sample)
    IN IF Len(h) > MOUTH_HISTORY_LEN THEN Tail(h) ELSE h

Activity_len(history) == Len(history)

\* activity = sum(self.mouth_state_history)
Activity(history) == Sum(history)

MouthMoving_above(activity) == activity > MOUTH_ACTIVITY

\* results_dict['mouth_moving']: True when activity >= 2, False otherwise
MouthMoving(activity) == activity >= MOUTH_ACTIVITY

----------------------------------------------------------------------------
\* process_frame on a frame with a face (unified_detector.py:100-200).
Face(lm, now) ==
    LET new_gaze == GazeBucket(AvgGazeRatio(lm))
        changed == GazeChanged(new_gaze, gaze_direction)
        changes == IF changed THEN gaze_changes + 1 ELSE gaze_changes
        last_change == IF changed THEN now ELSE last_gaze_change
        gaze_due == GazeAlertDue(changes, now, last_change)
        mar == MouthAspect(lm)
        history == PushHistory(mouth_state_history, IF IsMouthOpen(mar) THEN 1 ELSE 0)
        activity == Activity(history)
        sink == alert_logger # NoLogger
    IN /\ face_present' = TRUE
       /\ face_disappeared_start' = StartOnPresence(face_disappeared_start)
       /\ gaze_direction' = StoredGaze(new_gaze, gaze_direction)
       /\ last_gaze_change' = last_change
       /\ gaze_changes' = NextGazeChanges(changes, gaze_due)
       /\ mouth_state_history' = history
       /\ alerts' = (IF gaze_due /\ sink THEN <<"GAZE_MOVEMENT">> ELSE <<>>)
                    \o (IF sink /\ activity = MOUTH_ACTIVITY
                        THEN <<"MOUTH_MOVING">> ELSE <<>>)
       /\ results_dict' =
            [face_present |-> TRUE, gaze_direction |-> new_gaze,
             eye_ratio |-> EyeRatio(lm),
             mouth_moving |-> MouthMoving(activity),
             mouth_open_score |-> mar]

\* process_frame (unified_detector.py:67-200): mfl is multi_face_landmarks,
\* empty or holding the one face's landmarks; now is datetime.now().
process_frame(mfl, now) ==
    /\ clock' = now
    /\ frame' = mfl
    /\ UNCHANGED alert_logger
    /\ IF mfl = <<>> THEN NoFace(now) ELSE Face(mfl[1], now)

\* set_alert_logger (unified_detector.py:42-43)
set_alert_logger(logger) ==
    /\ alert_logger' = logger
    /\ UNCHANGED <<face_present, face_disappeared_start, gaze_direction,
                   last_gaze_change, gaze_changes, mouth_state_history>>
    /\ UNCHANGED <<call, unsinked, faceObs, gazeObs, mouthObs, violation, helper, twin>>

----------------------------------------------------------------------------
\* A detector held as a value: the fields after __init__
\* (unified_detector.py:24-40) at time 0, and process_frame as the function
\* from the fields to the fields after the call, with the returned bundle
\* and the events its alert logger received.
NewDetector ==
    [alert_logger |-> NoLogger, face_present |-> FALSE,
     face_disappeared_start |-> None, gaze_direction |-> "Center",
     last_gaze_change |-> 0, gaze_changes |-> 0, mouth_state_history |-> <<>>,
     results_dict |-> DefaultResults, alerts |-> <<>>]

\* unified_detector.py:86-98
NoFaceOf(d, now) ==
    LET start == DisappearedStart(d.face_present, d.face_disappeared_start, now)
        fire == DisappearedTooLong(start, now) /\ d.alert_logger # NoLogger
    IN [d EXCEPT !.face_present = FALSE,
                 !.face_disappeared_start =
                     IF fire THEN StartAfterAlert(start, now) ELSE start,
                 !.alerts = IF fire THEN <<"FACE_DISAPPEARED">> ELSE <<>>,
                 !.results_dict = DefaultResults]

\* unified_detector.py:100-200
FaceOf(d, lm, now) ==
    LET new_gaze == GazeBucket(AvgGazeRatio(lm))
        changed == GazeChanged(new_gaze, d.gaze_direction)
        changes == IF changed THEN d.gaze_changes + 1 ELSE d.gaze_changes
        last_change == IF changed THEN now ELSE d.last_gaze_change
        gaze_due == GazeAlertDue(changes, now, last_change)
        mar == MouthAspect(lm)
        history == PushHistory(d.mouth_state_history,
                               IF IsMouthOpen(mar) THEN 1 ELSE 0)
        activity == Activity(history)
        sink == d.alert_logger # NoLogger
    IN [d EXCEPT !.face_present = TRUE,
                 !.face_disappeared_start = StartOnPresence(d.face_disappeared_start),
                 !.gaze_direction = StoredGaze(new_gaze, d.gaze_direction),
                 !.last_gaze_change = last_change,
                 !.gaze_changes = NextGazeChanges(changes, gaze_due),
                 !.mouth_state_history = history,
                 !.alerts = (IF gaze_due /\ sink THEN <<"GAZE_MOVEMENT">> ELSE <<>>)
                            \o (IF sink /\ activity = MOUTH_ACTIVITY
                                THEN <<"MOUTH_MOVING">> ELSE <<>>),
                 !.results_dict =
                     [face_present |-> TRUE, gaze_direction |-> new_gaze,
                      eye_ratio |-> EyeRatio(lm),
                      mouth_moving |-> MouthMoving(activity),
                      mouth_open_score |-> mar]]

\* unified_detector.py:67-200
ProcessFrameOf(d, mfl, now) ==
    IF mfl = <<>> THEN NoFaceOf(d, now) ELSE FaceOf(d, mfl[1], now)

\* The detector of the variables, as a value.
Self ==
    [alert_logger |-> alert_logger, face_present |-> face_present,
     face_disappeared_start |-> face_disappeared_start,
     gaze_direction |-> gaze_direction, last_gaze_change |-> last_gaze_change,
     gaze_changes |-> gaze_changes, mouth_state_history |-> mouth_state_history,
     results_dict |-> results_dict, alerts |-> alerts]

----------------------------------------------------------------------------
\* Landmark sets fed to the detector.
Pt(x, y) == <<x, y>>

Landmarks(l_x, r_x, lip_gap) ==
    [l_iris |-> Pt(l_x, 40), l_corner_out |-> Pt(0, 40), l_corner_in |-> Pt(100, 40),
     r_iris |-> Pt(r_x, 40), r_corner_out |-> Pt(0, 40), r_corner_in |-> Pt(100, 40),
     mouth_top |-> Pt(50, 60), mouth_bottom |-> Pt(50, 60 + lip_gap),
     mouth_left |-> Pt(30, 62), mouth_right |-> Pt(70, 62),
     l_top |-> Pt(30, 38), l_bot |-> Pt(30, 41)]

NeutralFace == Landmarks(50, 50, 0)

\* A face whose two mouth corners fall on one pixel.
PinchedFace(lip_gap) ==
    [Landmarks(50, 50, lip_gap) EXCEPT !.mouth_left = Pt(50, 62),
                                       !.mouth_right = Pt(50, 62)]

NoViolation == "None"

\* The state after __init__ (unified_detector.py:24-40), constructed at time 0,
\* with nothing observed yet.
Constructed ==
    /\ alert_logger = NoLogger
    /\ face_present = FALSE
    /\ face_disappeared_start = None
    /\ gaze_direction = "Center"
    /\ last_gaze_change = 0
    /\ gaze_changes = 0
    /\ mouth_state_history = <<>>
    /\ clock = 0
    /\ frame = <<>>
    /\ results_dict = DefaultResults
    /\ alerts = <<>>
    /\ unsinked = FALSE
    /\ seen_present = FALSE
    /\ run_first = None
    /\ run_from_present = FALSE
    /\ run_alerts = <<>>
    /\ n_face_alerts = 0
    /\ long_run = FALSE
    /\ near_run = FALSE
    /\ last_bucket = "Center"
    /\ n_gaze_alerts = 0
    /\ change_at = None
    /\ spaced = TRUE
    /\ scenario_pos = 0
    /\ scenario_t0 = None
    /\ n_changes = 0
    /\ flags = <<>>
    /\ episode_alerts = 0
    /\ neutral_run = 0
    /\ violation = NoViolation
    /\ twin = NewDetector

Init ==
    /\ Constructed
    /\ fn = "none"
    /\ args = <<>>
    /\ ret = <<>>

----------------------------------------------------------------------------
\* Observers: history variables computed from the inputs of a call and from
\* what the call hands back (results_dict', alerts'), never from the fields.

Count(kind, log) == Cardinality({i \in DOMAIN log : log[i] = kind})

AtMost(cap, n) == IF n > cap THEN cap ELSE n

LastN(s, n) == IF Len(s) <= n THEN s ELSE SubSeq(s, Len(s) - n + 1, Len(s))

ObserveSink == unsinked' = (unsinked \/ alert_logger = NoLogger)

ObserveFace(mfl, now) ==
    LET fired == Count("FACE_DISAPPEARED", alerts')
        first == IF run_first = None THEN now ELSE run_first
    IN /\ n_face_alerts' = n_face_alerts + fired
       /\ IF mfl = <<>>
          THEN /\ run_first' = first
               /\ run_from_present' =
                    IF run_first = None THEN seen_present ELSE run_from_present
               /\ run_alerts' = IF fired > 0 THEN Append(run_alerts, now) ELSE run_alerts
               /\ long_run' = (long_run \/ now - first > Seconds(GRACE_SECONDS))
               /\ UNCHANGED <<seen_present, near_run>>
          ELSE /\ run_first' = None
               /\ run_from_present' = FALSE
               /\ run_alerts' = <<>>
               /\ seen_present' = TRUE
               /\ near_run' = (near_run \/ (run_first # None /\
                                 clock - run_first >= Seconds(GRACE_SECONDS) - 1))
               /\ UNCHANGED long_run

\* The scenario of six frames, and a seventh that makes the sixth change.
Scenario == <<"Center", "Right", "Center", "Right", "Center", "Right", "Center">>

ObserveGaze(mfl, now) ==
    LET bucket == IF mfl = <<>> THEN last_bucket ELSE GazeBucket(AvgGazeRatio(mfl[1]))
        changed == bucket # last_bucket
        t0 == IF scenario_pos = 0 THEN now ELSE scenario_t0
        matched == /\ mfl # <<>>
                   /\ scenario_pos # Off
                   /\ scenario_pos < Len(Scenario)
                   /\ alert_logger # NoLogger
                   /\ bucket = Scenario[scenario_pos + 1]
                   /\ now - t0 < Seconds(GAZE_WINDOW_SECONDS)
    IN /\ n_gaze_alerts' = n_gaze_alerts + Count("GAZE_MOVEMENT", alerts')
       /\ scenario_pos' = IF matched THEN scenario_pos + 1 ELSE Off
       /\ scenario_t0' = IF matched THEN t0 ELSE None
       /\ n_changes' = IF changed THEN n_changes + 1 ELSE n_changes
       /\ IF mfl = <<>>
          THEN UNCHANGED <<last_bucket, change_at, spaced>>
          ELSE /\ last_bucket' = bucket
               /\ change_at' = IF changed THEN now ELSE change_at
               /\ spaced' = (spaced /\ (changed /\ change_at # None
                                => now - change_at >= Seconds(GAZE_WINDOW_SECONDS)))

\* Number of open samples among the latest MOUTH_HISTORY_LEN face-present frames.
OpenCount(fl) == Sum(LastN(fl, MOUTH_HISTORY_LEN))

ObserveMouth(mfl, now) ==
    IF mfl = <<>>
    THEN /\ neutral_run' = Off
         /\ UNCHANGED <<flags, episode_alerts>>
    ELSE LET sample == IF IsMouthOpen(results_dict'.mouth_open_score) THEN 1 ELSE 0
             fl == Append(flags, sample)
             carried == IF OpenCount(flags) >= MOUTH_ACTIVITY THEN episode_alerts ELSE 0
         IN /\ flags' = fl
            /\ neutral_run' = IF neutral_run # Off /\ mfl[1] = NeutralFace
                               THEN neutral_run + 1 ELSE Off
            /\ episode_alerts' =
                 IF OpenCount(fl) >= MOUTH_ACTIVITY
                 THEN AtMost(2, carried + Count("MOUTH_MOVING", alerts'))
                 ELSE 0

----------------------------------------------------------------------------
\* Face presence: frames of a neutral face, or of no face, at any rate.
FaceAttach == \E logger \in {NoLogger, Sink} : set_alert_logger(logger)

FaceStep(mfl) ==
    \E dt \in 0..MaxStep :
        /\ clock + dt <= MaxTime
        /\ process_frame(mfl, clock + dt)
        /\ ObserveSink
        /\ ObserveFace(mfl, clock + dt)
        /\ UNCHANGED <<gazeObs, mouthObs, violation, helper, twin>>

FaceAbsentFrame == FaceStep(<<>>)

FacePresentFrame ==
    /\ Len(mouth_state_history) < MaxFacePresent
    /\ FaceStep(<<NeutralFace>>)

FaceNext == FaceAttach \/ FaceAbsentFrame \/ FacePresentFrame

SpecFace == Init /\ [][FaceNext]_vars

----------------------------------------------------------------------------
\* Gaze: frames whose irises sit at chosen places between the eye corners,
\* the boundaries 0.46 and 0.54 of the dead zone among them.
GazePairs == {<<45, 45>>, <<45, 47>>, <<50, 50>>, <<54, 54>>, <<53, 56>>}

GazeFaces == {Landmarks(p[1], p[2], 0) : p \in GazePairs}

GazeAttach == \E logger \in {NoLogger, Sink} : set_alert_logger(logger)

GazeStep(mfl, steps, max_time) ==
    \E dt \in steps :
        /\ clock + dt <= max_time
        /\ process_frame(mfl, clock + dt)
        /\ ObserveSink
        /\ ObserveGaze(mfl, clock + dt)
        /\ UNCHANGED <<faceObs, mouthObs, violation, helper, twin>>

GazeAbsentFrame == GazeStep(<<>>, 0..GazeMaxStep, GazeMaxTime)

GazePresentFrame ==
    /\ Len(mouth_state_history) < MaxGazePresent
    /\ \E lm \in GazeFaces : GazeStep(<<lm>>, 0..GazeMaxStep, GazeMaxTime)

GazeNext == GazeAttach \/ GazeAbsentFrame \/ GazePresentFrame

SpecGaze == Init /\ [][GazeNext]_vars

\* Slow gaze: the same calls with frames that arrive either at once or a
\* whole gaze window after the previous one.
SlowSteps == {0, Seconds(GAZE_WINDOW_SECONDS)}

SlowMaxTime == SlowMaxChanges * Seconds(GAZE_WINDOW_SECONDS)

SlowAttach == \E logger \in {NoLogger, Sink} : set_alert_logger(logger)

SlowAbsentFrame == GazeStep(<<>>, SlowSteps, SlowMaxTime)

SlowPresentFrame ==
    /\ Len(mouth_state_history) < MaxGazePresent
    /\ \E lm \in GazeFaces : GazeStep(<<lm>>, SlowSteps, SlowMaxTime)

SlowNext == SlowAttach \/ SlowAbsentFrame \/ SlowPresentFrame

SpecGazeSlow == Init /\ [][SlowNext]_vars

----------------------------------------------------------------------------
\* Mouth: frames of a face looking ahead with the lips closed or apart.
MouthGaps == {0, 7}

MouthFaces == {Landmarks(50, 50, gap) : gap \in MouthGaps}

MouthAttach == \E logger \in {NoLogger, Sink} : set_alert_logger(logger)

MouthStep(mfl) ==
    \E dt \in 0..1 :
        /\ clock + dt <= MouthMaxTime
        /\ process_frame(mfl, clock + dt)
        /\ ObserveSink
        /\ ObserveMouth(mfl, clock + dt)
        /\ UNCHANGED <<faceObs, gazeObs, violation, helper, twin>>

MouthAbsentFrame == MouthStep(<<>>)

MouthPresentFrame ==
    /\ Len(flags) < MaxMouthFrames
    /\ \E lm \in MouthFaces :
          /\ IsMouthOpen(MouthAspect(lm)) => Sum(flags) < MaxOpen
          /\ MouthStep(<<lm>>)

MouthNext == MouthAttach \/ MouthAbsentFrame \/ MouthPresentFrame

SpecMouth == Init /\ [][MouthNext]_vars

----------------------------------------------------------------------------
\* Degenerate mouths: frames whose mouth corners coincide, with the lips
\* together, one pixel apart or wide apart, among neutral frames.
PinchedGaps == {0, 1, 7}

PinchedFaces == {PinchedFace(gap) : gap \in PinchedGaps} \cup {NeutralFace}

PinchedAttach == \E logger \in {NoLogger, Sink} : set_alert_logger(logger)

PinchedAbsentFrame == MouthStep(<<>>)

PinchedPresentFrame ==
    /\ Len(flags) < MaxPinchedFrames
    /\ \E lm \in PinchedFaces : MouthStep(<<lm>>)

PinchedNext == PinchedAttach \/ PinchedAbsentFrame \/ PinchedPresentFrame

SpecPinched == Init /\ [][PinchedNext]_vars

----------------------------------------------------------------------------
\* The monitoring loop of main.py: the detector is given the alert logger
\* once, then every captured frame goes through process_frame and the loop
\* records at most one violation for it.  The multiple-face and object
\* detectors are outside the model; their verdicts are inputs.
RecordedViolation(results, multiple_faces, objects_detected) ==
    IF ~results.face_present THEN "FACE_DISAPPEARED"
    ELSE IF multiple_faces THEN "MULTIPLE_FACES"
    ELSE IF objects_detected THEN "OBJECT_DETECTED"
    ELSE NoViolation

MainSetup ==
    /\ alert_logger = NoLogger
    /\ set_alert_logger(Sink)

MainStep(mfl) ==
    \E dt \in 0..MaxStep, multiple_faces, objects_detected \in BOOLEAN :
        /\ alert_logger = Sink
        /\ clock + dt <= MaxTime
        /\ process_frame(mfl, clock + dt)
        /\ ObserveSink
        /\ ObserveFace(mfl, clock + dt)
        /\ violation' = RecordedViolation(results_dict', multiple_faces,
                                          objects_detected)
        /\ UNCHANGED <<gazeObs, mouthObs, helper, twin>>

MainAbsentFrame == MainStep(<<>>)

MainPresentFrame ==
    /\ Len(mouth_state_history) < MaxFacePresent
    /\ MainStep(<<NeutralFace>>)

MainNext == MainSetup \/ MainAbsentFrame \/ MainPresentFrame

SpecMain == Init /\ [][MainNext]_vars

----------------------------------------------------------------------------
\* Two detectors on one frame sequence: the detector of the variables is
\* given a sink before the first frame, the second detector is never given
\* one, and every frame is processed by both at the same time.  A frame
\* comes at once or just past the grace period after the previous one.
TwinFaces == {NeutralFace, Landmarks(40, 40, 7)}

TwinSteps == {0, Seconds(GRACE_SECONDS) + 1}

TwinSetup ==
    /\ alert_logger = NoLogger
    /\ set_alert_logger(Sink)

TwinStep(mfl) ==
    \E dt \in TwinSteps :
        /\ alert_logger = Sink
        /\ clock + dt <= MaxTime
        /\ process_frame(mfl, clock + dt)
        /\ twin' = ProcessFrameOf(twin, mfl, clock + dt)
        /\ UNCHANGED <<unsinked, faceObs, gazeObs, mouthObs, violation, helper>>

TwinAbsentFrame == TwinStep(<<>>)

TwinPresentFrame ==
    /\ Len(mouth_state_history) < MaxTwinPresent
    /\ \E lm \in TwinFaces : TwinStep(<<lm>>)

TwinNext == TwinSetup \/ TwinAbsentFrame \/ TwinPresentFrame

SpecTwin == Init /\ [][TwinNext]_vars

----------------------------------------------------------------------------
\* The geometry helpers called on their own: the arguments are drawn when
\* the call is made, and the call returns.
GeoPts == {Pt(x, y) : x \in 0..GeoGrid, y \in 0..GeoGrid}

AspectArgs ==
    {<<p1, p2, p3, p4, Pt(0, 0), Pt(0, 0)>> :
        p1 \in GeoPts, p2 \in GeoPts, p3 \in GeoPts, p4 \in GeoPts}

\* Normalised x coordinates 0..1 in steps of 1/IrisGrid.
IrisArgs ==
    {<<Pt(c, 0), Pt(l, 0), Pt(r, 0)>> :
        c \in 0..IrisGrid, l \in 0..IrisGrid, r \in 0..IrisGrid}

GeoInit ==
    /\ Constructed
    /\ ret = <<>>
    /\ \/ fn = "aspect" /\ args \in AspectArgs
       \/ fn = "iris" /\ args \in IrisArgs

ReturnAspect ==
    /\ fn = "aspect" /\ ret = <<>>
    /\ ret' = AspectRatio(args[1], args[2], args[3], args[4], args[5], args[6])
    /\ UNCHANGED <<detector, call, unsinked, faceObs, gazeObs, mouthObs, violation,
                   fn, args, twin>>

ReturnIris ==
    /\ fn = "iris" /\ ret = <<>>
    /\ ret' = IrisPosition(args[1], <<args[2], args[3]>>)
    /\ UNCHANGED <<detector, call, unsinked, faceObs, gazeObs, mouthObs, violation,
                   fn, args, twin>>

GeoNext == ReturnAspect \/ ReturnIris

SpecGeometry == GeoInit /\ [][GeoNext]_vars

----------------------------------------------------------------------------
\* Properties of face presence, checked under SpecFace.

SinkThroughout == ~unsinked

InAbsentRun == run_first # None

RunSpan == clock - run_first

\* C3 as stated: a fresh detector with a sink, fed only frames with no
\* landmark set over 6 seconds, has emitted exactly one FACE_DISAPPEARED, at
\* or after the 5-second mark.
C3_FreshSixSecondsOneAlert ==
    (~seen_present /\ SinkThroughout /\ InAbsentRun /\ RunSpan = Seconds(6))
        => /\ n_face_alerts = 1
           /\ \A i \in DOMAIN run_alerts :
                  run_alerts[i] - run_first >= Seconds(GRACE_SECONDS)

\* C3 amended: a fresh detector fed only frames with no landmark set never
\* starts the timer and emits no FACE_DISAPPEARED, however long the absence;
\* when the absent run follows a face-present frame (sink attached), the
\* frames of its first 6 seconds emit at most one FACE_DISAPPEARED, later
\* than 5 seconds after the run's first frame, and exactly one once a frame
\* has arrived later than 5 seconds after it.
C3_FreshNeverAlerts ==
    /\ ~seen_present => (n_face_alerts = 0 /\ face_disappeared_start = None)
    /\ (run_from_present /\ SinkThroughout /\ RunSpan <= Seconds(6))
          => /\ Len(run_alerts) <= 1
             /\ \A i \in DOMAIN run_alerts :
                    run_alerts[i] - run_first > Seconds(GRACE_SECONDS)
             /\ RunSpan > Seconds(GRACE_SECONDS) => Len(run_alerts) = 1

C3_Witness ==
    /\ ~seen_present /\ SinkThroughout /\ alert_logger = Sink
    /\ InAbsentRun /\ RunSpan = Seconds(6)
    /\ n_face_alerts = 0

\* C4: within one run of face-absent frames, every FACE_DISAPPEARED comes
\* more than 5 seconds after the present-to-absent transition that began the
\* run, and more than 5 seconds after the previous one of the run.
C4_AbsenceDebounced ==
    \A i \in DOMAIN run_alerts :
        /\ run_from_present
        /\ run_alerts[i] - run_first > Seconds(GRACE_SECONDS)
        /\ i > 1 => run_alerts[i] - run_alerts[i - 1] > Seconds(GRACE_SECONDS)

C4_Witness == SinkThroughout /\ Len(run_alerts) = 2

\* C5: as long as no run of face-absent frames has spanned more than 5
\* seconds, FACE_DISAPPEARED has never been emitted, whatever the total
\* absent time.
C5_ShortRunsNeverAlert == ~long_run => n_face_alerts = 0

C5_Witness ==
    /\ SinkThroughout /\ alert_logger = Sink
    /\ near_run /\ ~long_run
    /\ run_from_present /\ RunSpan = Seconds(GRACE_SECONDS)
    /\ n_face_alerts = 0

PresentToAbsent == face_present /\ ~face_present'

AbsentToPresent == ~face_present /\ face_present'

\* C8 as stated: face_disappeared_start takes a value (from unset or from
\* another value) only on a present-to-absent frame and becomes unset only
\* on an absent-to-present frame.
C8_OnlyOnTransitions ==
    [][face_disappeared_start' # face_disappeared_start
         => IF face_disappeared_start' # None THEN PresentToAbsent
            ELSE AbsentToPresent]_vars

\* C8 amended: face_disappeared_start goes from unset to a value only on a
\* present-to-absent frame, becomes unset only on an absent-to-present frame,
\* and goes from one value to another only on a face-absent frame that emits
\* FACE_DISAPPEARED, which resets it to the time of that frame.
C8_TransitionsOrAlertReset ==
    [][face_disappeared_start' # face_disappeared_start
         => \/ /\ face_disappeared_start = None
               /\ PresentToAbsent
            \/ /\ face_disappeared_start' = None
               /\ AbsentToPresent
            \/ /\ face_disappeared_start # None
               /\ ~face_present /\ ~face_present'
               /\ Count("FACE_DISAPPEARED", alerts') = 1
               /\ face_disappeared_start' = clock']_vars

C8_Witness ==
    /\ run_alerts # <<>>
    /\ face_disappeared_start = run_alerts[Len(run_alerts)]
    /\ face_disappeared_start # run_first

\* C21: while no face-present frame has been processed the disappearance
\* timer stays unset and no FACE_DISAPPEARED has been emitted, whatever the
\* length of the absent run; and the timer goes from unset to set only on a
\* face-absent frame whose preceding frame was face-present.
C21_TimerNeedsPresence ==
    [][/\ ~seen_present' =>
             (face_disappeared_start' = None /\ n_face_alerts' = 0)
       /\ (face_disappeared_start = None /\ face_disappeared_start' # None)
             => (frame # <<>> /\ frame' = <<>>)]_vars

C21_Witness ==
    /\ ~seen_present /\ alert_logger = Sink /\ SinkThroughout
    /\ InAbsentRun /\ RunSpan >= Seconds(2 * GRACE_SECONDS)
    /\ face_disappeared_start = None
    /\ n_face_alerts = 0

----------------------------------------------------------------------------
\* Properties of gaze, checked under SpecGaze and SpecGazeSlow.

\* C2 as stated: after the six frames Center, Right, Center, Right, Center,
\* Right on a fresh detector with a sink, all within 1.9 seconds,
\* GAZE_MOVEMENT has been emitted exactly once and the counter is 0.
C2_SixFramesOneAlert ==
    scenario_pos = 6 => (n_gaze_alerts = 1 /\ gaze_changes = 0)

\* C2 amended: those six frames make five changes (the first Center frame
\* is no change from the initial Center), emit no GAZE_MOVEMENT and leave
\* the counter at 5; a seventh frame, Center, within the same 1.9 seconds
\* makes the sixth change, emits GAZE_MOVEMENT once and resets the counter.
C2_SixFramesFiveChanges ==
    /\ scenario_pos = 6 => (n_gaze_alerts = 0 /\ gaze_changes = 5)
    /\ scenario_pos = 7 => /\ n_gaze_alerts = 1
                           /\ alerts = <<"GAZE_MOVEMENT">>
                           /\ gaze_changes = 0

C2_Witness ==
    /\ scenario_pos = 6
    /\ clock - scenario_t0 = Seconds(GAZE_WINDOW_SECONDS) - 1
    /\ alert_logger = Sink

\* C6: while every two consecutive gaze-bucket changes have been 2 seconds
\* or more apart, GAZE_MOVEMENT has never been emitted.
C6_SpacedChangesNeverAlert == spaced => n_gaze_alerts = 0

\* C9: the stored gaze direction is the bucket classified on the latest
\* face-present frame (Center before any), and the gaze direction returned
\* for a face-present frame is the stored one.
C9_StoredGazeIsLastBucket ==
    /\ gaze_direction = last_bucket
    /\ results_dict.face_present => results_dict.gaze_direction = gaze_direction

C9_Witness ==
    /\ frame = <<>> /\ ~results_dict.face_present
    /\ gaze_direction = "Left" /\ gaze_changes > 1

\* C10: the bucket returned for a face-present frame is decided by the
\* frame's averaged gaze ratio alone: Right below 0.46, Left above 0.54,
\* Center from 0.46 to 0.54 with both boundaries.
C10_BucketByRatio ==
    frame # <<>> =>
        LET avg == AvgGazeRatio(frame[1])
            bucket == results_dict.gaze_direction
        IN /\ 100 * avg[1] < 46 * avg[2] => bucket = "Right"
           /\ 100 * avg[1] > 54 * avg[2] => bucket = "Left"
           /\ (46 * avg[2] <= 100 * avg[1] /\ 100 * avg[1] <= 54 * avg[2])
                 => bucket = "Center"

C10_Witness ==
    /\ frame # <<>>
    /\ 100 * AvgGazeRatio(frame[1])[1] = 46 * AvgGazeRatio(frame[1])[2]
    /\ results_dict.gaze_direction = "Center"
    /\ gaze_changes > 0

----------------------------------------------------------------------------
\* Properties of mouth activity, checked under SpecMouth.

InEpisode == OpenCount(flags) >= MOUTH_ACTIVITY

\* C1: with a sink attached, MOUTH_MOVING has been emitted exactly once in
\* the current episode of mouth activity (so on its first frame and on no
\* later one), and a frame outside an episode emits none.
C1_OncePerEpisode ==
    SinkThroughout =>
        /\ InEpisode => episode_alerts = 1
        /\ (~InEpisode /\ frame # <<>>) => Count("MOUTH_MOVING", alerts) = 0

\* C7: the mouth history holds at most 20 samples: the open flags of the
\* most recent min(n, 20) face-present frames, in arrival order.
C7_HistoryIsLastTwenty ==
    /\ Len(mouth_state_history) <= MOUTH_HISTORY_LEN
    /\ mouth_state_history = LastN(flags, MOUTH_HISTORY_LEN)

C7_Witness ==
    /\ Len(flags) > MOUTH_HISTORY_LEN
    /\ flags[1] = 1
    /\ Sum(flags) > Activity(mouth_state_history)

\* C11: on a face-present frame the returned mouth_moving is true exactly
\* when at least 2 of the latest 20 face-present frames, this one included,
\* had the mouth open.
C11_MovingIffTwoOpen ==
    results_dict.face_present =>
        (results_dict.mouth_moving <=> OpenCount(flags) >= MOUTH_ACTIVITY)

C11_Witness ==
    /\ results_dict.face_present /\ ~results_dict.mouth_moving
    /\ Len(flags) > MOUTH_HISTORY_LEN
    /\ Sum(flags) = MOUTH_ACTIVITY

\* C16: while a fresh detector has been fed nothing but face-present frames
\* of the neutral face, up to 20 of them, the latest result has mouth_moving
\* false and gaze_direction Center.
C16_NeutralFramesStayNeutral ==
    (neutral_run # Off /\ neutral_run >= 1 /\ neutral_run <= 20) =>
        /\ results_dict.face_present
        /\ ~results_dict.mouth_moving
        /\ results_dict.gaze_direction = "Center"

C16_Witness == neutral_run = 20 /\ Len(mouth_state_history) = 20

----------------------------------------------------------------------------
\* Further properties of face presence (SpecFace) and gaze (SpecGaze).

\* C12: a call on a frame with no landmark set returns face_present false
\* with the defaults (gaze_direction Unknown, eye_ratio 0, mouth_moving
\* false, mouth_open_score 0), leaves gaze_direction, gaze_changes,
\* last_gaze_change and mouth_state_history as they were and logs neither
\* GAZE_MOVEMENT nor MOUTH_MOVING.
C12_AbsentFrameIsNeutral ==
    [][frame' = <<>> =>
          /\ results_dict' = [face_present |-> FALSE, gaze_direction |-> "Unknown",
                              eye_ratio |-> <<0, 1>>, mouth_moving |-> FALSE,
                              mouth_open_score |-> <<0, 1>>]
          /\ gaze_direction' = gaze_direction
          /\ gaze_changes' = gaze_changes
          /\ last_gaze_change' = last_gaze_change
          /\ mouth_state_history' = mouth_state_history
          /\ Count("GAZE_MOVEMENT", alerts') = 0
          /\ Count("MOUTH_MOVING", alerts') = 0]_vars

C12_Witness ==
    /\ frame = <<>> /\ results_dict = DefaultResults
    /\ gaze_direction = "Right" /\ gaze_changes = 3
    /\ last_gaze_change < clock
    /\ Len(mouth_state_history) = 3

\* C18: with a sink attached, once the latest frame of an absent run that
\* follows a face-present frame is more than 5 seconds later than the run's
\* first frame, FACE_DISAPPEARED has been emitted in the run.
C18_LongAbsenceAlerts ==
    (run_from_present /\ SinkThroughout /\ RunSpan > Seconds(GRACE_SECONDS))
        => run_alerts # <<>>

C18_Witness ==
    /\ run_from_present /\ SinkThroughout
    /\ RunSpan = Seconds(GRACE_SECONDS) + 1
    /\ run_alerts = <<clock>>

\* C20: after every call gaze_changes is between 0 and 5: it is the number
\* of bucket changes so far modulo 6, and with a sink attached GAZE_MOVEMENT
\* has been emitted once for every sixth change, on the frame of that change.
C20_AlertEverySixthChange ==
    /\ gaze_changes >= 0 /\ gaze_changes <= GAZE_CHANGE_LIMIT
    /\ gaze_changes = n_changes % (GAZE_CHANGE_LIMIT + 1)
    /\ SinkThroughout => n_gaze_alerts = n_changes \div (GAZE_CHANGE_LIMIT + 1)
    /\ Count("GAZE_MOVEMENT", alerts) > 0 => gaze_changes = 0

C20_Witness ==
    /\ n_changes = GAZE_CHANGE_LIMIT + 1
    /\ alerts = <<"GAZE_MOVEMENT">>
    /\ gaze_changes = 0

----------------------------------------------------------------------------
\* Properties of the geometry helpers, checked under SpecGeometry.

Returned(f) == fn = f /\ ret # <<>>

\* C13: _get_aspect_ratio returns 0 whenever p1 and p4 coincide, and never
\* returns a quotient by a zero norm.
C13_AspectZeroOnZeroWidth ==
    Returned("aspect") =>
        /\ ret[3] # 0
        /\ args[1] = args[4] => ret = <<0, 0, 1>>

C13_Witness ==
    /\ Returned("aspect") /\ args[1] = args[4]
    /\ args[2] # args[6] /\ args[3] # args[5]
    /\ ret = <<0, 0, 1>>

\* C14: _get_iris_position returns 0.5 whenever the two eye corners have the
\* same x coordinate.
C14_IrisHalfOnZeroSpan ==
    (Returned("iris") /\ args[2][1] = args[3][1]) =>
        (ret[2] # 0 /\ 2 * ret[1] = ret[2])

C14_Witness ==
    /\ Returned("iris") /\ args[2][1] = args[3][1]
    /\ args[1][1] # args[2][1]
    /\ ret = <<1, 2>>

\* C15: for an iris centre and eye corners with x in 0..1 the value returned
\* by _get_iris_position lies in [0, 1].
C15_IrisWithinUnit ==
    Returned("iris") => (0 <= ret[1] /\ ret[1] <= ret[2])

----------------------------------------------------------------------------
\* Properties of degenerate mouths, checked under SpecPinched.

\* C17: on a face-present frame whose mouth corners coincide the reported
\* mouth_open_score is 0 and the sample appended to the history is closed.
C17_PinchedMouthIsClosed ==
    (frame # <<>> /\ frame[1].mouth_left = frame[1].mouth_right) =>
        /\ results_dict.mouth_open_score[1] = 0
        /\ mouth_state_history[Len(mouth_state_history)] = 0

----------------------------------------------------------------------------
\* Properties of the monitoring loop, checked under SpecMain.

\* C19: whenever the loop records a FACE_DISAPPEARED violation, the face has
\* been absent on every frame of a run that spans at least the grace period.
C19_RecordOnlyAfterGrace ==
    violation = "FACE_DISAPPEARED" =>
        (InAbsentRun /\ RunSpan >= Seconds(GRACE_SECONDS))

----------------------------------------------------------------------------
\* Properties of two detectors on one frame sequence, checked under SpecTwin.

Fields(d) ==
    <<d.face_present, d.face_disappeared_start, d.gaze_direction,
      d.gaze_changes, d.last_gaze_change, d.mouth_state_history>>

\* C22: of two detectors stepped on the same frames and times, one with a
\* sink and one without, the fields (face_present, face_disappeared_start,
\* gaze_direction, gaze_changes, last_gaze_change, mouth_state_history) are
\* equal after every frame and the returned bundles are equal.
C22_SinkIndependent ==
    (alert_logger = Sink /\ twin.alert_logger = NoLogger) =>
        /\ Fields(Self) = Fields(twin)
        /\ results_dict = twin.results_dict

====
